---- MODULE Spec2Model ----
(***************************************************************************)
(* gpyutils, scripts/list_pkg_impls.py: the per-slot report of the Python  *)
(* implementations a package declares.  main() reads the optional pkgcheck *)
(* log into a dict, then process() walks the repository group by group and *)
(* each group newest version first, and prints one line per reported group.*)
(*                                                                         *)
(* Strings are sequences of one-character strings, so that formatting      *)
(* (padding, colour wrapping, joining) is modelled as what it does.        *)
(* The collaborators outside this file (the package manager, the           *)
(* implementation registry, the classifier) are inputs: a version record is*)
(* drawn when the loop reaches it.  The registry knows every name the log  *)
(* suggests, and every definition file can be opened.                      *)
(***************************************************************************)
EXTENDS Integers, Sequences, FiniteSets, TLC

VARIABLES
    pc,               \* where main()/process() stands
    pkgcheck_output,  \* args.pkgcheck_output: None or a path
    mirc_color,       \* args.mirc_color
    log_read,         \* lines of the log consumed so far
    compat_updates,   \* dict: key string -> list of implementation names
    gi,               \* groups taken from group_packages() so far
    pg_len,           \* len(pg) of the current group
    vi,               \* versions of the current group the inner loop has taken
    p,                \* the inner loop variable
    kw_impls, st_impls, up_impls, eapi, ptype, test, attest,
    out,              \* standard output: the printed lines
    \* history variables, read by the properties only
    hist,             \* the versions the inner loop has taken in this group
    flag_sets,        \* times the flag block (lines 78-109) ran in this group
    eapi_sets,        \* times eapi was assigned in this group
    opened,           \* definition files opened in this group
    lines_read,       \* lines read from the last opened definition file
    scanflags,        \* ptype/attest/test as the file scan left them
    found,            \* kw_impls and up_impls as they were before lines 138-148
    plain,            \* the lines as process() prints them without colour
    emitted,          \* did the last finished group print a line
    badline           \* has a line that is not JSON been met in the log

vars == <<pc, pkgcheck_output, mirc_color, log_read, compat_updates, gi, pg_len,
          vi, p, kw_impls, st_impls, up_impls, eapi, ptype, test, attest, out,
          hist, flag_sets, eapi_sets, opened, lines_read, scanflags, found,
          plain, emitted, badline>>

\* ------------------------------------------------------------------ bounds
MaxLogLines == 2
MaxGroups == 2
MaxVersions == 2
MaxFileLines == 2

\* ----------------------------------------------------------------- strings
\* None and an unbound local, told apart from every string (a string holds
\* one-character elements only)
None == <<"None">>
Unbound == <<"unbound">>
ETX == "ETX"

Spaces(n) == [i \in 1..n |-> " "]

S_legacy == <<"(", "l", "e", "g", "a", "c", "y", ")">>
S_pep517 == <<"(", "P", "E", "P", "5", "1", "7", ")">>
S_notype == Spaces(8)
S_EAPI == <<"E", "A", "P", "I", ":">>
S_STABLE == <<" ", "S", "T", "A", "B", "L", "E", ":">>
S_ARCH == <<" ", " ", "~", "A", "R", "C", "H", ":">>
S_UP == <<" ", " ", "U", "P", ":">>

Digits == <<"0", "1", "2", "3", "4", "5", "6", "7", "8", "9">>

RECURSIVE Decimal(_)
Decimal(n) == IF n < 10 THEN <<Digits[n + 1]>>
              ELSE Decimal(n \div 10) \o <<Digits[(n % 10) + 1]>>

\* f"{c:02d}"
Fmt02d(c) == IF Len(Decimal(c)) < 2 THEN <<"0">> \o Decimal(c) ELSE Decimal(c)

FieldWidth == 40

\* f"{s:<40}": pad on the right, never truncate
LeftAlign(s) == IF Len(s) >= FieldWidth THEN s ELSE s \o Spaces(FieldWidth - Len(s))

RECURSIVE Join(_, _)
Join(parts, sep) ==
    IF parts = <<>> THEN <<>>
    ELSE IF Len(parts) = 1 THEN parts[1]
    ELSE parts[1] \o sep \o Join(Tail(parts), sep)

StartsWith(x, prefix) ==
    /\ Len(x) >= Len(prefix)
    /\ SubSeq(x, 1, Len(prefix)) = prefix

Range(s) == {s[i] : i \in DOMAIN s}

\* ---------------------------------------------------------------- colorize
\* colorize with the code written as {c} instead of {c:02d}
colorize_unpadded(t, c) == <<ETX>> \o Decimal(c) \o t \o <<ETX>>

\* the wrapper's inverse: drop each opening control character with the two
\* characters of the code after it and each closing control character, keep
\* the rest
StripColors(s) ==
    LET idx == [i \in 1..Len(s) |-> i]
        etx == SelectSeq(idx, LAMBDA i : s[i] = ETX)
        opening == {etx[k] : k \in {k \in DOMAIN etx : k % 2 = 1}}
        dropped == Range(etx) \cup {i + 1 : i \in opening} \cup {i + 2 : i \in opening}
        kept == SelectSeq(idx, LAMBDA i : i \notin dropped)
    IN  [k \in 1..Len(kept) |-> s[kept[k]]]

Contains(s, t) ==
    \E i \in 1..(Len(s) - Len(t) + 1) : SubSeq(s, i, i + Len(t) - 1) = t

Last(s) == s[Len(s)]

colorize(t, c) == <<ETX>> \o Fmt02d(c) \o t \o <<ETX>>

\* c = colorize if mirc_color else lambda x, _: x
C(color, t, c) == IF color THEN colorize(t, c) ELSE t

\* ------------------------------------------------- implementation registry
\* gpyutils.implementations: the registry read_implementations() fills.  An
\* implementation object is identified by the name PYTHON_COMPAT uses; the
\* registry gives the short name shown.
implementations ==
    [n \in {"python3_11", "python3_12", "python3_13"} |->
        CASE n = "python3_11" -> <<"3", ".", "1", "1">>
          [] n = "python3_12" -> <<"3", ".", "1", "2">>
          [] n = "python3_13" -> <<"3", ".", "1", "3">>]

get_impl_by_name(x) == CHOOSE i \in DOMAIN implementations : i = x

\* x.short_name
short_name(i) == implementations[i]

\* [x.short_name for x in impls]
ShortNames(impls) == [i \in DOMAIN impls |-> short_name(impls[i])]

\* PackageClass
non_keyworded == "non_keyworded"
keyworded == "keyworded"
stable == "stable"

\* ------------------------------------------------------------------- dicts
EmptyDict == [k \in {} |-> <<>>]

\* dict(pairs): a later pair with the same key replaces the earlier one
DictSet(d, k, v) == [x \in (DOMAIN d) \cup {k} |-> IF x = k THEN v ELSE d[x]]

\* d.get(k, default)
DictGet(d, k, default) == IF k \in DOMAIN d THEN d[k] ELSE default

\* f"{data['category']}/{data['package']}-{data['version']}"
LogKey(data) == data["category"] \o <<"/">> \o data["package"] \o <<"-">> \o data["version"]

\* f"{p.key}-{p.version}"
PkgKey(pkg) == pkg.key \o <<"-">> \o pkg.version

\* ------------------------------------------------- the definition-file scan
P_PEP517 == <<"DISTUTILS_USE_PEP517=">>
P_VERIFY == <<"PYPI_VERIFY_REPO=">>
P_ENABLE == <<"distutils_enable_tests", " ">>
P_PYTEST == <<"python_test()">>

\* the file scan without the break of line 98
RECURSIVE ScanFile_nobreak(_, _, _)
ScanFile_nobreak(f, i, s) ==
    IF i > Len(f) THEN s
    ELSE LET x == f[i]
             r == [s EXCEPT !.n = i]
         IN  IF StartsWith(x, P_PEP517)
                 THEN ScanFile_nobreak(f, i + 1, [r EXCEPT !.ptype = S_pep517])
             ELSE IF StartsWith(x, P_VERIFY)
                 THEN ScanFile_nobreak(f, i + 1, [r EXCEPT !.attest = <<"A">>])
             ELSE IF StartsWith(x, P_ENABLE) \/ StartsWith(x, P_PYTEST)
                 THEN ScanFile_nobreak(f, i + 1, [r EXCEPT !.test = <<"T">>])
             ELSE ScanFile_nobreak(f, i + 1, r)

\* for x in f: ... (lines 89-98); s.n counts the lines read
RECURSIVE ScanFile(_, _, _)
ScanFile(f, i, s) ==
    IF i > Len(f) THEN s
    ELSE LET x == f[i]
             r == [s EXCEPT !.n = i]
         IN  IF StartsWith(x, P_PEP517)
                 THEN ScanFile(f, i + 1, [r EXCEPT !.ptype = S_pep517])
             ELSE IF StartsWith(x, P_VERIFY)
                 THEN ScanFile(f, i + 1, [r EXCEPT !.attest = <<"A">>])
             ELSE IF StartsWith(x, P_ENABLE) \/ StartsWith(x, P_PYTEST)
                 THEN [r EXCEPT !.test = <<"T">>]
             ELSE ScanFile(f, i + 1, r)

\* the condition of line 83-87
OpensFile(pkg) ==
    \/ "distutils-r1" \in pkg.inherits
    \/ "test" \notin pkg.restrict
    \/ "pypi" \in pkg.inherits

\* lines 79-98: the defaults, then the scan when the file is opened
FileFlags(pkg) ==
    LET s0 == [ptype |-> S_legacy, test |-> <<" ">>, attest |-> <<" ">>, n |-> 0]
    IN  IF OpensFile(pkg) THEN ScanFile(pkg.file, 1, s0) ELSE s0

\* lines 100-105 with test_privileged tested before test_network
TestFlag_swapped(pkg, scanned) ==
    IF "test_privileged" \in pkg.properties THEN <<"P">>
    ELSE IF "test_network" \in pkg.properties THEN <<"N">>
    ELSE IF "test" \in pkg.restrict THEN <<"r">>
    ELSE scanned

\* lines 100-105
TestFlag(pkg, scanned) ==
    IF "test_network" \in pkg.properties THEN <<"N">>
    ELSE IF "test_privileged" \in pkg.properties THEN <<"P">>
    ELSE IF "test" \in pkg.restrict THEN <<"r">>
    ELSE scanned

\* lines 106-107
BuildFlag(pkg, scanned) ==
    IF "distutils-r1" \notin pkg.inherits THEN S_notype ELSE scanned

\* lines 108-109
AttestFlag(pkg, scanned) ==
    IF "pypi" \notin pkg.inherits THEN <<" ">> ELSE scanned

\* ------------------------------------------------------- the loop body
\* lines 67-69
KwNext(kw, cl, impls) ==
    IF kw = <<>> /\ cl # non_keyworded THEN ShortNames(impls) ELSE kw

\* lines 70-72
StNext(st, cl, impls) ==
    IF st = <<>> /\ cl = stable THEN ShortNames(impls) ELSE st

\* lines 73-77 without the guard: every version replaces the list
UpNext_overwrite(up, pkg, compat) ==
    LET names == DictGet(compat, PkgKey(pkg), <<>>)
    IN  [i \in DOMAIN names |-> short_name(get_impl_by_name(names[i]))]

\* lines 73-77
UpNext(up, pkg, compat) ==
    IF up = <<>>
        THEN LET names == DictGet(compat, PkgKey(pkg), <<>>)
             IN  [i \in DOMAIN names |-> short_name(get_impl_by_name(names[i]))]
        ELSE up

\* line 78 without the guard: every version sets the flags
FlagsDue_always(pt) == TRUE

\* line 78: the flags are still to be set
FlagsDue(pt) == pt = None

\* lines 111-112 left out
BreakEarly_never(kw, st) == FALSE

\* lines 111-112
BreakEarly(kw, st) == kw # <<>> /\ st # <<>>

\* lines 116-117 testing the stable list only
SkipGroup_unstable(kw, st) == st = <<>>

\* lines 116-117
SkipGroup(kw, st) == kw = <<>> /\ st = <<>>

\* -------------------------------------------------------------- the output
\* lines 126-131
TestColor(t) == IF t = <<"T">> THEN 9 ELSE IF t = <<"r">> THEN 4 ELSE 11

\* lines 138-140
FilterKw(kw, st) == SelectSeq(kw, LAMBDA x : x \notin Range(st))

\* lines 146-148 without the stable list
FilterUp_kw_only(up, kw, st) == SelectSeq(up, LAMBDA x : x \notin Range(kw))

\* lines 146-148 (kw is the list line 138 has already filtered)
FilterUp(up, kw, st) ==
    SelectSeq(up, LAMBDA x : x \notin Range(kw) /\ x \notin Range(st))

\* out.append(label); out.extend([c(x, n) for x in xs]) when xs is not empty
Segment(color, label, xs, n) ==
    IF xs = <<>> THEN <<>>
    ELSE <<label>> \o [i \in DOMAIN xs |-> C(color, xs[i], n)]

\* lines 119-153: the line printed for the locals in f (kw and up filtered)
FormatLine(color, f) ==
    Join(<<LeftAlign(f.atom), S_EAPI, C(color, f.eapi, 11), C(color, f.ptype, 7),
           C(color, f.attest, 9) \o C(color, f.test, TestColor(f.test))>>
         \o Segment(color, S_STABLE, f.st, 9)
         \o Segment(color, S_ARCH, f.kw, 11)
         \o Segment(color, S_UP, f.up, 7),
         <<" ">>)

\* ------------------------------------------------------------------ inputs
\* A version record as gentoopm hands it over: version n of the package of
\* group g, with what get_python_impls() and get_package_class() say of it.
\* file stands for the lines of open(p.path).
PkgName(g) == <<"p">> \o Decimal(g)

Version(g, n, impls, cl, e, inh, res, props, file) ==
    [key |-> <<"d", "/">> \o PkgName(g),
     version |-> Decimal(n),
     slotted_atom |-> <<"d", "/">> \o PkgName(g) \o <<":", "0">>,
     impls |-> impls, cl |-> cl, eapi |-> e,
     inherits |-> inh, restrict |-> res, properties |-> props, file |-> file]

\* One line of the log: text json.loads() rejects, or the object it returns.
BadJson == [json |-> FALSE]

LogObject(class, g, n, updates) ==
    [json |-> TRUE,
     data |-> [x \in {"__class__", "category", "package", "version", "updates"} |->
                 CASE x = "__class__" -> class
                   [] x = "category" -> <<"d">>
                   [] x = "package" -> PkgName(g)
                   [] x = "version" -> Decimal(n)
                   [] x = "updates" -> updates]]

\* ----------------------------------------------------------------- actions
Init ==
    /\ pc = "readlog"
    /\ pkgcheck_output \in {None, <<"l", "o", "g">>}
    /\ mirc_color \in BOOLEAN
    /\ log_read = 0
    /\ compat_updates = EmptyDict
    /\ gi = 0 /\ pg_len = 0 /\ vi = 0
    /\ p = Unbound
    /\ kw_impls = Unbound /\ st_impls = Unbound /\ up_impls = Unbound
    /\ eapi = Unbound /\ ptype = Unbound /\ test = Unbound /\ attest = Unbound
    /\ out = <<>>
    /\ hist = <<>> /\ flag_sets = 0 /\ eapi_sets = 0 /\ opened = 0
    /\ lines_read = 0 /\ scanflags = Unbound /\ found = Unbound
    /\ plain = <<>> /\ emitted = FALSE /\ badline = FALSE

\* the reader with a line that is not JSON passed over instead of raising
ReadLogLine_lenient(line) ==
    /\ pc = "readlog"
    /\ pkgcheck_output # None
    /\ log_read < MaxLogLines
    /\ log_read' = log_read + 1
    /\ pc' = "readlog"
    /\ badline' = (badline \/ ~line.json)
    /\ IF ~line.json \/ line.data["__class__"] # "PythonCompatUpdate"
          THEN UNCHANGED compat_updates
          ELSE compat_updates' =
                   DictSet(compat_updates, LogKey(line.data), line.data["updates"])
    /\ UNCHANGED <<pkgcheck_output, mirc_color, gi, pg_len, vi, p, kw_impls,
                   st_impls, up_impls, eapi, ptype, test, attest, out, hist,
                   flag_sets, eapi_sets, opened, lines_read, scanflags, found,
                   plain, emitted>>

\* process_pkgcheck_output(), one turn of "for line in f" under dict(...):
\* json.loads() raises on text that is not JSON and nothing catches it.
ReadLogLine(line) ==
    /\ pc = "readlog"
    /\ pkgcheck_output # None
    /\ log_read < MaxLogLines
    /\ log_read' = log_read + 1
    /\ IF ~line.json
          THEN /\ pc' = "fatal"
               /\ badline' = TRUE
               /\ UNCHANGED compat_updates
          ELSE /\ pc' = "readlog"
               /\ UNCHANGED badline
               /\ IF line.data["__class__"] # "PythonCompatUpdate"
                     THEN UNCHANGED compat_updates
                     ELSE compat_updates' =
                              DictSet(compat_updates, LogKey(line.data),
                                      line.data["updates"])
    /\ UNCHANGED <<pkgcheck_output, mirc_color, gi, pg_len, vi, p, kw_impls,
                   st_impls, up_impls, eapi, ptype, test, attest, out, hist,
                   flag_sets, eapi_sets, opened, lines_read, scanflags, found,
                   plain, emitted>>

\* The generator is exhausted (or path is None): dict() returns and main()
\* calls process().
EndOfLog ==
    /\ pc = "readlog"
    /\ pc' = "process"
    /\ UNCHANGED <<pkgcheck_output, mirc_color, log_read, compat_updates, gi,
                   pg_len, vi, p, kw_impls, st_impls, up_impls, eapi, ptype,
                   test, attest, out, hist, flag_sets, eapi_sets, opened,
                   lines_read, scanflags, found, plain, emitted, badline>>

\* for pg in group_packages(...): the next group, of n versions; lines 50-54.
\* test and attest are not reset.
NextGroup(n) ==
    /\ pc = "process"
    /\ gi < MaxGroups
    /\ gi' = gi + 1
    /\ pg_len' = n
    /\ vi' = 0
    /\ kw_impls' = <<>> /\ st_impls' = <<>> /\ up_impls' = <<>>
    /\ eapi' = None /\ ptype' = None
    /\ pc' = "scan"
    /\ hist' = <<>> /\ flag_sets' = 0 /\ eapi_sets' = 0 /\ opened' = 0
    /\ lines_read' = 0 /\ scanflags' = Unbound /\ found' = Unbound
    /\ emitted' = FALSE
    /\ UNCHANGED <<pkgcheck_output, mirc_color, log_read, compat_updates, p,
                   test, attest, out, plain, badline>>

\* The repository has no further group: process() returns, main() returns 0.
EndOfGroups ==
    /\ pc = "process"
    /\ pc' = "done"
    /\ UNCHANGED <<pkgcheck_output, mirc_color, log_read, compat_updates, gi,
                   pg_len, vi, p, kw_impls, st_impls, up_impls, eapi, ptype,
                   test, attest, out, hist, flag_sets, eapi_sets, opened,
                   lines_read, scanflags, found, plain, emitted, badline>>

\* for p in reversed(pg): one turn of the inner loop on version ver, lines
\* 58-112.
ScanVersion(ver) ==
    /\ pc = "scan"
    /\ vi < pg_len
    /\ vi' = vi + 1
    /\ p' = ver
    /\ hist' = Append(hist, ver)
    /\ IF ver.impls = None
          THEN /\ pc' = "output"
               /\ UNCHANGED <<kw_impls, st_impls, up_impls, eapi, ptype, test,
                              attest, flag_sets, eapi_sets, opened, lines_read,
                              scanflags>>
          ELSE LET kw == KwNext(kw_impls, ver.cl, ver.impls)
                   st == StNext(st_impls, ver.cl, ver.impls)
                   ff == FileFlags(ver)
               IN  /\ IF eapi = None
                         THEN eapi' = ver.eapi /\ eapi_sets' = eapi_sets + 1
                         ELSE UNCHANGED <<eapi, eapi_sets>>
                   /\ kw_impls' = kw
                   /\ st_impls' = st
                   /\ up_impls' = UpNext(up_impls, ver, compat_updates)
                   /\ IF FlagsDue(ptype)
                         THEN /\ ptype' = BuildFlag(ver, ff.ptype)
                              /\ test' = TestFlag(ver, ff.test)
                              /\ attest' = AttestFlag(ver, ff.attest)
                              /\ flag_sets' = flag_sets + 1
                              /\ opened' = opened + (IF OpensFile(ver) THEN 1 ELSE 0)
                              /\ lines_read' = ff.n
                              /\ scanflags' = ff
                         ELSE UNCHANGED <<ptype, test, attest, flag_sets, opened,
                                         lines_read, scanflags>>
                   /\ pc' = IF BreakEarly(kw, st) THEN "output" ELSE "scan"
    /\ UNCHANGED <<pkgcheck_output, mirc_color, log_read, compat_updates, gi,
                   pg_len, out, found, plain, emitted, badline>>

\* reversed(pg) is exhausted: the inner loop ends without a break.
LoopEnd ==
    /\ pc = "scan"
    /\ vi = pg_len
    /\ pc' = "output"
    /\ UNCHANGED <<pkgcheck_output, mirc_color, log_read, compat_updates, gi,
                   pg_len, vi, p, kw_impls, st_impls, up_impls, eapi, ptype,
                   test, attest, out, hist, flag_sets, eapi_sets, opened,
                   lines_read, scanflags, found, plain, emitted, badline>>

\* lines 114-153: skip the group, or print its line.
Output ==
    /\ pc = "output"
    /\ IF SkipGroup(kw_impls, st_impls)
          THEN /\ pc' = "process"
               /\ UNCHANGED <<kw_impls, up_impls, out, found, plain, emitted>>
          ELSE IF ptype = None
          THEN /\ pc' = "fatal"
               /\ UNCHANGED <<kw_impls, up_impls, out, found, plain, emitted>>
          ELSE LET kw == FilterKw(kw_impls, st_impls)
                   up == FilterUp(up_impls, kw, st_impls)
                   f == [atom |-> p.slotted_atom, eapi |-> eapi, ptype |-> ptype,
                         attest |-> attest, test |-> test, st |-> st_impls,
                         kw |-> kw, up |-> up]
               IN  /\ kw_impls' = kw
                   /\ up_impls' = up
                   /\ found' = [kw |-> kw_impls, up |-> up_impls]
                   /\ out' = Append(out, FormatLine(mirc_color, f))
                   /\ plain' = Append(plain, FormatLine(FALSE, f))
                   /\ emitted' = TRUE
                   /\ pc' = "process"
    /\ UNCHANGED <<pkgcheck_output, mirc_color, log_read, compat_updates, gi,
                   pg_len, vi, p, st_impls, eapi, ptype, test, attest, hist,
                   flag_sets, eapi_sets, opened, lines_read, scanflags, badline>>

\* ----------------------------------------------------- the input domains
I11 == get_impl_by_name("python3_11")
I12 == get_impl_by_name("python3_12")

L_PEP517 == <<"DISTUTILS_USE_PEP517=", "setuptools">>
L_VERIFY == <<"PYPI_VERIFY_REPO=", "https://github.com/x/y">>
L_ENABLE == <<"distutils_enable_tests", " ", "pytest">>
L_PYTEST == <<"python_test()", " {">>
L_OTHER == <<"\t", "DISTUTILS_USE_PEP517=", "no">>

\* The scan slice: every declaration and class in the two newest versions of
\* the first group, three representative versions elsewhere; one set of flags
\* in the first group and another in the later ones.
ScanVersions(g, k, n) ==
    LET V(impls, cl) ==
            IF g = 1
                THEN Version(g, n, impls, cl, <<"8">>, {"distutils-r1"}, {}, {},
                             <<L_PEP517, L_ENABLE>>)
                ELSE Version(g, n, impls, cl, <<"7">>, {"pypi"}, {"test"}, {},
                             <<L_VERIFY>>)
    IN  IF g = 1 /\ k <= 2
            THEN {V(None, non_keyworded)} \cup
                 {V(i, c) : i \in {<<>>, <<I11>>, <<I11, I12>>},
                            c \in {non_keyworded, keyworded, stable}}
            ELSE {V(None, non_keyworded), V(<<I11>>, stable), V(<<I12>>, keyworded)}

\* The log lines of the scan slice: suggestions for versions 1 and 2 of the
\* first package, a record of another class, and a line that is not JSON.
ScanLogLines ==
    {LogObject("PythonCompatUpdate", 1, n, u) :
        n \in 1..2, u \in {<<"python3_12">>, <<"python3_13">>}}
    \cup {LogObject("PythonCompatCheck", 1, 1, <<"python3_13">>), BadJson}

Next ==
    \/ \E l \in ScanLogLines : ReadLogLine(l)
    \/ EndOfLog
    \/ \E n \in 1..MaxVersions : NextGroup(n)
    \/ EndOfGroups
    \/ \E v \in ScanVersions(gi, vi + 1, pg_len - vi) : ScanVersion(v)
    \/ LoopEnd
    \/ Output

Spec == Init /\ [][Next]_vars

\* The flag slice: every combination of inheritance, restriction, property
\* and definition file (up to MaxFileLines lines) in a keyworded newest
\* version of the first group, every inheritance and file in a non-keyworded
\* one; four representative versions elsewhere, with an older API version
\* and other flags.
FlagFiles ==
    UNION {[1..m -> {L_PEP517, L_VERIFY, L_ENABLE, L_PYTEST, L_OTHER}] :
             m \in 0..MaxFileLines}

FlagVersions(g, k, n) ==
    IF g = 1 /\ k = 1
        THEN {Version(g, n, <<I11>>, keyworded, <<"8">>, inh, res, props, f) :
                inh \in SUBSET {"distutils-r1", "pypi"},
                res \in {{}, {"test"}},
                props \in SUBSET {"test_network", "test_privileged"},
                f \in FlagFiles}
             \cup
             {Version(g, n, <<I11>>, non_keyworded, <<"8">>, inh, {}, {}, f) :
                inh \in SUBSET {"distutils-r1", "pypi"},
                f \in FlagFiles}
        ELSE {Version(g, n, None, non_keyworded, <<"7">>, {}, {}, {}, <<>>),
              Version(g, n, <<I11>>, stable, <<"7">>, {"pypi"}, {"test"}, {},
                      <<L_VERIFY>>),
              Version(g, n, <<I12>>, keyworded, <<"7">>, {"distutils-r1"}, {},
                      {"test_network"}, <<L_PYTEST, L_PEP517>>),
              Version(g, n, <<I12>>, non_keyworded, <<"7">>,
                      {"distutils-r1", "pypi"}, {}, {"test_privileged"},
                      <<L_PEP517>>)}

FlagLogLines == {LogObject("PythonCompatUpdate", 1, 1, <<"python3_13">>), BadJson}

InitFlags == Init /\ ~mirc_color

NextFlags ==
    \/ \E l \in FlagLogLines : ReadLogLine(l)
    \/ EndOfLog
    \/ \E n \in 1..MaxVersions : NextGroup(n)
    \/ EndOfGroups
    \/ \E v \in FlagVersions(gi, vi + 1, pg_len - vi) : ScanVersion(v)
    \/ LoopEnd
    \/ Output

SpecFlags == InitFlags /\ [][NextFlags]_vars

\* ------------------------------------------------------------ properties
\* The group gi has been dealt with: its line is printed or it was skipped.
GroupDone == pc = "process" /\ gi >= 1

\* The last printed line with its colour wrappers removed.
LastShown == IF mirc_color THEN StripColors(Last(out)) ELSE Last(out)

\* Some version the scan took declares implementations, a non-empty list of
\* them, and is keyworded or stable.
Reportable ==
    \E j \in DOMAIN hist :
        /\ hist[j].impls # None
        /\ hist[j].impls # <<>>
        /\ hist[j].cl \in {keyworded, stable}

\* C1: finishing a group prints exactly one line when a version scanned
\* before the first one without declared implementations is keyworded or
\* stable with a non-empty list, and prints nothing otherwise; no other step
\* prints.
C1_OneLineIffReportable ==
    [][/\ Len(out') = Len(out) + (IF pc = "output" /\ Reportable THEN 1 ELSE 0)
       /\ SubSeq(out', 1, Len(out)) = out
       /\ (pc = "output" /\ pc' = "process") => (emitted' <=> Reportable)]_vars

C1_Witness ==
    /\ GroupDone /\ emitted
    /\ Len(hist) = 2
    /\ hist[1].cl = non_keyworded
    /\ hist[2].cl = keyworded

\* C2: on a printed line STABLE shows the whole stable list and is there
\* exactly when that list is non-empty, ~ARCH shows the keyworded list less
\* the stable one, UP shows the suggestions less both, a label is left out
\* when its list is empty, and the three shown lists are pairwise disjoint.
C2_DisjointLabels ==
    (GroupDone /\ emitted) =>
        LET st == st_impls
            kw == SelectSeq(found.kw, LAMBDA x : x \notin Range(st))
            up == SelectSeq(found.up,
                            LAMBDA x : x \notin Range(st) \cup Range(found.kw))
            seg(label, xs) == IF xs = <<>> THEN <<>> ELSE <<label>> \o xs
            head == <<LeftAlign(p.slotted_atom), S_EAPI, eapi, ptype,
                      attest \o test>>
        IN  /\ LastShown = Join(head \o seg(S_STABLE, st) \o seg(S_ARCH, kw)
                                \o seg(S_UP, up), <<" ">>)
            /\ Contains(LastShown, S_STABLE) <=> st # <<>>
            /\ Contains(LastShown, S_ARCH) <=> kw # <<>>
            /\ Contains(LastShown, S_UP) <=> up # <<>>
            /\ Range(st) \cap Range(kw) = {}
            /\ Range(st) \cap Range(up) = {}
            /\ Range(kw) \cap Range(up) = {}

C2_Witness ==
    /\ GroupDone /\ emitted
    /\ st_impls # <<>>
    /\ kw_impls # <<>>
    /\ kw_impls # found.kw
    /\ up_impls # <<>>

C2_WitnessNoStable ==
    /\ GroupDone /\ emitted
    /\ st_impls = <<>>
    /\ Contains(LastShown, S_ARCH)

\* C4: with colour on, removing the wrappers from each printed line gives the
\* line printed for the same group with colour off; with colour off the
\* lines are those lines; the same groups print in the same order.
C4_ColourIsPresentationOnly ==
    /\ Len(out) = Len(plain)
    /\ (GroupDone /\ emitted) =>
          IF mirc_color
              THEN StripColors(Last(out)) = Last(plain) /\ Last(out) # Last(plain)
              ELSE Last(out) = Last(plain)

C4_Witness ==
    /\ mirc_color
    /\ Len(out) = 2
    /\ GroupDone /\ emitted
    /\ st_impls # <<>> /\ kw_impls # <<>>
    /\ Contains(out[1], S_STABLE) /\ Contains(out[1], S_ARCH)
    /\ Contains(out[1], S_UP)

\* The short names the mapping suggests for version n of the current group.
Suggested(n) ==
    LET k == <<"d", "/">> \o PkgName(gi) \o <<"-">> \o Decimal(n)
        names == DictGet(compat_updates, k, <<>>)
    IN  {short_name(get_impl_by_name(names[i])) : i \in DOMAIN names}

\* C5 as stated: every suggestion the log holds for any version of a group
\* that prints a line is under UP unless the stable or keyworded list has it.
C5_AnyVersionSuggestion ==
    (GroupDone /\ emitted) =>
        \A n \in 1..pg_len : \A x \in Suggested(n) :
            x \notin Range(st_impls) \cup Range(found.kw) => x \in Range(up_impls)

\* The first version the scan took that declares implementations and has a
\* non-empty entry in the mapping, or 0.
FirstSuggested ==
    LET js == {j \in DOMAIN hist :
                 hist[j].impls # None /\ Suggested(pg_len + 1 - j) # {}}
    IN  IF js = {} THEN 0 ELSE CHOOSE j \in js : \A i \in js : j <= i

\* C5 amended: the suggestions of the first scanned version that has any are
\* under UP unless the stable or keyworded list has them, and UP shows no
\* other suggestion.
C5_FirstSuggestionShown ==
    (GroupDone /\ emitted) =>
        LET shown == IF FirstSuggested = 0 THEN {}
                     ELSE Suggested(pg_len + 1 - FirstSuggested)
        IN  Range(up_impls) = shown \ (Range(st_impls) \cup Range(found.kw))

C5_Witness ==
    /\ GroupDone /\ emitted
    /\ FirstSuggested = 2
    /\ up_impls # <<>>

\* C6: once a line of the log is not JSON the run is over, with nothing
\* printed and no group looked at; and no group is looked at while the log
\* is still being read.
C6_BadLogIsFatal ==
    /\ badline => (pc = "fatal" /\ out = <<>> /\ gi = 0)
    /\ pc = "readlog" => (gi = 0 /\ out = <<>>)

C6_Witness ==
    /\ badline
    /\ log_read = 2
    /\ DOMAIN compat_updates # {}

\* The first version the scan took whose class is in cls and which declares
\* implementations, or 0.
FirstOfClass(cls) ==
    LET js == {j \in DOMAIN hist : hist[j].impls # None /\ hist[j].cl \in cls}
    IN  IF js = {} THEN 0 ELSE CHOOSE j \in js : \A i \in js : j <= i

\* C7 as stated: during the scan the keyworded list is that of the first
\* version that is not non-keyworded and the stable list that of the first
\* stable version, whatever older versions declare.
C7_ListsFromFirstVersion ==
    pc \in {"scan", "output"} =>
        /\ FirstOfClass({keyworded, stable}) # 0 =>
              kw_impls = ShortNames(hist[FirstOfClass({keyworded, stable})].impls)
        /\ FirstOfClass({stable}) # 0 =>
              st_impls = ShortNames(hist[FirstOfClass({stable})].impls)

\* C8: the loop goes on to a further version only if the version it took
\* last declares implementations and one of the two lists is still empty;
\* versions are taken newest first and none is taken unseen.
C8_ScanStops ==
    /\ (pc = "scan" /\ vi > 0) =>
          (p.impls # None /\ (kw_impls = <<>> \/ st_impls = <<>>))
    /\ pc \in {"scan", "output"} =>
          /\ Len(hist) = vi
          /\ vi <= pg_len
          /\ \A j \in DOMAIN hist : hist[j].version = Decimal(pg_len + 1 - j)
          /\ flag_sets <= 1 /\ opened <= flag_sets

C8_Witness ==
    /\ pc = "output"
    /\ vi < pg_len
    /\ kw_impls # <<>> /\ st_impls # <<>>

\* The version that supplies the flags of the current group: the newest one.
Newest == hist[1]

IsTestLine(x) == StartsWith(x, P_ENABLE) \/ StartsWith(x, P_PYTEST)

\* The first test-enabling line of file f, or Len(f) when it has none.
LastLineRead(f) ==
    LET ts == {i \in DOMAIN f : IsTestLine(f[i])}
    IN  IF ts = {} THEN Len(f) ELSE CHOOSE i \in ts : \A j \in ts : i <= j

\* C3: when a group prints a line, the API version and the flags on it were
\* assigned once in this group's scan, from its newest version; at most one
\* definition file was opened; and the run never dies of the assertion.
C3_FlagsFromNewest ==
    /\ (GroupDone /\ emitted) =>
          /\ eapi_sets = 1 /\ flag_sets = 1 /\ opened <= 1
          /\ Newest.impls # None
          /\ eapi = Newest.eapi
          /\ ptype # None
          /\ ptype = BuildFlag(Newest, FileFlags(Newest).ptype)
          /\ test = TestFlag(Newest, FileFlags(Newest).test)
          /\ attest = AttestFlag(Newest, FileFlags(Newest).attest)
          /\ StartsWith(LastShown,
                        Join(<<LeftAlign(Newest.slotted_atom), S_EAPI, Newest.eapi,
                               ptype, attest \o test>>, <<" ">>))
    /\ pc = "fatal" => badline

C3_Witness ==
    /\ GroupDone /\ emitted
    /\ gi = 2
    /\ Len(hist) = 2
    /\ Newest.cl = non_keyworded
    /\ hist[2].cl = stable
    /\ Len(out) = 2

\* C9: the test flag is N with test_network, else P with test_privileged,
\* else r with test restricted, else T when the definition file has a
\* test-enabling line, else blank; the build-type flag is blank without
\* distutils-r1 and the attestation flag blank without pypi.
C9_FlagPrecedence ==
    (pc \in {"scan", "output"} /\ flag_sets > 0) =>
        /\ test = IF "test_network" \in Newest.properties THEN <<"N">>
                  ELSE IF "test_privileged" \in Newest.properties THEN <<"P">>
                  ELSE IF "test" \in Newest.restrict THEN <<"r">>
                  ELSE IF \E i \in DOMAIN Newest.file : IsTestLine(Newest.file[i])
                      THEN <<"T">>
                  ELSE <<" ">>
        /\ "distutils-r1" \notin Newest.inherits => ptype = Spaces(8)
        /\ "pypi" \notin Newest.inherits => attest = <<" ">>

C9_Witness ==
    /\ pc = "output" /\ flag_sets > 0
    /\ test = <<"N">>
    /\ Newest.properties = {"test_network", "test_privileged"}
    /\ "test" \in Newest.restrict
    /\ \E i \in DOMAIN Newest.file : IsTestLine(Newest.file[i])
    /\ Newest.inherits = {}

C9_WitnessT ==
    /\ pc = "output" /\ flag_sets > 0
    /\ test = <<"T">>
    /\ scanflags.ptype = S_pep517 /\ ptype = Spaces(8)

\* C10: the definition file is opened unless the version inherits neither
\* distutils-r1 nor pypi and restricts test; it is read up to and including
\* its first test-enabling line; the scan leaves the build-type flag at
\* (PEP517) exactly when a DISTUTILS_USE_PEP517= line is among the lines
\* read, and the attestation flag at A exactly when a PYPI_VERIFY_REPO= line
\* is; otherwise they stay at their defaults.
C10_FileScanStops ==
    (pc \in {"scan", "output"} /\ flag_sets > 0) =>
        LET f == Newest.file
            closed == /\ "distutils-r1" \notin Newest.inherits
                      /\ "pypi" \notin Newest.inherits
                      /\ "test" \in Newest.restrict
            n == IF closed THEN 0 ELSE LastLineRead(f)
        IN  /\ opened = (IF closed THEN 0 ELSE 1)
            /\ lines_read = n
            /\ scanflags.ptype =
                   IF \E i \in 1..n : StartsWith(f[i], P_PEP517)
                       THEN S_pep517 ELSE S_legacy
            /\ scanflags.attest =
                   IF \E i \in 1..n : StartsWith(f[i], P_VERIFY)
                       THEN <<"A">> ELSE <<" ">>
            /\ scanflags.test =
                   IF \E i \in 1..n : IsTestLine(f[i]) THEN <<"T">> ELSE <<" ">>

C10_Witness ==
    /\ pc = "output" /\ flag_sets > 0
    /\ Len(Newest.file) = 2
    /\ lines_read = 1
    /\ StartsWith(Newest.file[2], P_PEP517)
    /\ scanflags.ptype = S_legacy
    /\ "distutils-r1" \in Newest.inherits

====
